---- MODULE Spec2Model ----
(***************************************************************************)
(* A model of the dubbing pipeline's three stages:                         *)
(*   - core/translator.py : translate_segments, call_openrouter,           *)
(*                          parse_translation_response                     *)
(*   - core/transcriber.py: merge_short_segments                           *)
(*   - core/merger.py     : create_dubbed_audio, create_srt_file,          *)
(*                          merge_video_audio, export_video                *)
(* Each stage has its own specification over the module's variables; the   *)
(* variables of the other stages stay at their idle values.                *)
(***************************************************************************)
EXTENDS Integers, Sequences, FiniteSets, TLC

VARIABLES
    \* ---- translator.py: translate_segments ----
    segments,     \* the segment collection (list of dicts, mutated in place)
    api_key,      \* the credential argument of the running call
    batch_size,   \* the batch_size argument of the running call
    pc,           \* "idle" | "loop" | "done" | "raised"
    bstart,       \* offset of the next batch (the i of range(0, len, batch_size))
    calls,        \* number of call_openrouter invocations of the running call
    entry,        \* the collection as it was when the running call was made
    allFailed,    \* every call_openrouter of the running call returned nothing or raised
    fallbacks,    \* batches of the running call that ended on a fallback path
    last,         \* what the service sent for the batch processed last, and the path taken
    \* ---- translator.py: parse_translation_response on one reply ----
    pResponse,    \* the reply text (a token sequence)
    pBatch,       \* the batch being reconciled
    pBatchIn,     \* the batch as it was before the reply was reconciled
    pResult,      \* the parse result
    pPc,          \* "off" | "reply" | "parsed" | "reconciled"
    \* ---- transcriber.py: merge_short_segments ----
    mSegs,        \* the list passed in: its dicts are mutated in place
    mRaw,         \* the raw segments as they were before the first pass
    mIn,          \* the segments as they were when the running pass began
    mMin,         \* min_duration
    mPc,          \* "off" | "start" | "loop" | "done"
    mNext,        \* index of next_seg in segments
    mCur,         \* index of the dict current_seg refers to
    mMerged,      \* merged: the indices of the dicts appended so far
    mPass,        \* 1: the pass over the raw segments; 2: over its output
    \* ---- merger.py: create_dubbed_audio ----
    aSegs,        \* the segments read so far by the loop at line 38
    aTotal,       \* total_duration, in ticks of 1/TicksPerMs ms
    aDubVol,      \* dubbed_volume, in tenths
    aOrig,        \* the original track arguments, once line 56 has read them
    aPc,          \* "off" | "call" | "clips" | "mixed" | "returned" | "raised"
    aCanvas,      \* combined: one set of sounding sources per millisecond
    aOut,         \* the track written by combined.export
    \* ---- merger.py: export_video ----
    ePc,          \* "off" | "probe" | "dub" | "srt" | "mux" | "cleanup" |
                  \* "returned" | "raised"
    eBurn,        \* burn_subtitles
    eFiles,       \* the temporary files that exist
    eDubbed,      \* dubbed_audio: the path create_dubbed_audio returned
    eSrt,         \* srt_path
    eSuccess,     \* success, as merge_video_audio returned it
    eFailed,      \* the step of the pipeline that failed, if one did
    eResult       \* what export_video returned

\* ------------------------------------------------------------------------
\* Bounds of the model
\* ------------------------------------------------------------------------
MaxSegs == 2
MaxBatchSize == 2
MaxItems == 2
MaxRaw == 3          \* raw segments handed to merge_short_segments
MaxTime == 5         \* latest timestamp, in half seconds
MaxClips == 2        \* segments handed to create_dubbed_audio
MaxMs == 2           \* length of the canvas, in milliseconds

\* ------------------------------------------------------------------------
\* Python / JSON values.  A value is a tagged record; strings are sequences
\* of one-character strings.
\* ------------------------------------------------------------------------
Num(n) == [k |-> "num", n |-> n]
Str(s) == [k |-> "str", s |-> s]
Null == [k |-> "null"]

\* Python truthiness: None, 0 and "" are falsy.
Truthy(v) ==
    CASE v.k = "num" -> v.n # 0
      [] v.k = "str" -> v.s # <<>>
      [] OTHER -> FALSE

\* a or b
Or(a, b) == IF Truthy(a) THEN a ELSE b

\* dict.get(key): None when the key is absent.
Get(item, key) == IF key \in DOMAIN item THEN item[key] ELSE Null

DigitChar == <<"0", "1", "2", "3", "4", "5", "6", "7", "8", "9">>

IsDigit(c) == \E d \in 1..10 : DigitChar[d] = c

DigitVal(c) == (CHOOSE d \in 1..10 : DigitChar[d] = c) - 1

\* str(n) for n >= 0
RECURSIVE ToStr(_)
ToStr(n) == IF n < 10 THEN <<DigitChar[n + 1]>>
            ELSE ToStr(n \div 10) \o <<DigitChar[(n % 10) + 1]>>

RECURSIVE DigitsVal(_)
DigitsVal(s) == IF s = <<>> THEN 0
                ELSE 10 * DigitsVal(SubSeq(s, 1, Len(s) - 1)) + DigitVal(s[Len(s)])

RECURSIVE StripSpaces(_)
StripSpaces(s) ==
    IF s = <<>> THEN s
    ELSE IF s[1] = " " THEN StripSpaces(Tail(s))
    ELSE IF s[Len(s)] = " " THEN StripSpaces(SubSeq(s, 1, Len(s) - 1))
    ELSE s

\* int(s) of a str: surrounding blanks are dropped, an optional sign, then
\* decimal digits.  [ok |-> FALSE] stands for ValueError.
IntOfStr(s) ==
    LET t == StripSpaces(s)
        signed == t # <<>> /\ t[1] \in {"+", "-"}
        d == IF signed THEN Tail(t) ELSE t
    IN  IF d # <<>> /\ \A j \in 1..Len(d) : IsDigit(d[j])
        THEN [ok |-> TRUE,
              n |-> IF signed /\ t[1] = "-" THEN 0 - DigitsVal(d) ELSE DigitsVal(d)]
        ELSE [ok |-> FALSE]

\* ------------------------------------------------------------------------
\* The reply text, as tokens.  An object token is one JSON object.
\* ------------------------------------------------------------------------
Tok(t) == [k |-> t]
Obj(f) == [k |-> "obj", f |-> f]

FENCE == Tok("fence")       \* the fence marker: three backquotes
TAGJSON == Tok("json")      \* the word json right behind a fence
TAGOTHER == Tok("tag")      \* another language tag right behind a fence
LB == Tok("[")
RB == Tok("]")
COMMA == Tok(",")
WS == Tok(" ")
PROSE == Tok("prose")

\* str.strip() on tokens
RECURSIVE Strip(_)
Strip(r) ==
    IF r = <<>> THEN r
    ELSE IF r[1] = WS THEN Strip(Tail(r))
    ELSE IF r[Len(r)] = WS THEN Strip(SubSeq(r, 1, Len(r) - 1))
    ELSE r

\* the test: fence marker followed by json occurs in response (line 170)
HasJsonFence(r) == \E p \in 1..(Len(r) - 1) : r[p] = FENCE /\ r[p + 1] = TAGJSON

\* the test: a fence marker occurs in response (line 174)
HasFence(r) == \E p \in 1..Len(r) : r[p] = FENCE

Min(S) == CHOOSE x \in S : \A y \in S : x <= y
Max(S) == CHOOSE x \in S : \A y \in S : x >= y

\* re.search at line 171: the leftmost fence-plus-json that has a later
\* fence; the group is what lies between it and the next
\* fence, blanks at both ends left out.
SearchJsonFence(r) ==
    LET starts == {p \in 1..(Len(r) - 1) :
                      /\ r[p] = FENCE /\ r[p + 1] = TAGJSON
                      /\ \E q \in (p + 2)..Len(r) : r[q] = FENCE}
    IN  IF starts = {} THEN [found |-> FALSE]
        ELSE LET p == Min(starts)
                 q == Min({q \in (p + 2)..Len(r) : r[q] = FENCE})
             IN  [found |-> TRUE, group |-> Strip(SubSeq(r, p + 2, q - 1))]

\* re.search at line 175: the same for a bare fence marker.
SearchFence(r) ==
    LET starts == {p \in 1..Len(r) :
                      /\ r[p] = FENCE
                      /\ \E q \in (p + 1)..Len(r) : r[q] = FENCE}
    IN  IF starts = {} THEN [found |-> FALSE]
        ELSE LET p == Min(starts)
                 q == Min({q \in (p + 1)..Len(r) : r[q] = FENCE})
             IN  [found |-> TRUE, group |-> Strip(SubSeq(r, p + 1, q - 1))]

\* response[response.find('['):response.rfind(']') + 1] when both exist
BracketSpan(r) ==
    LET lbs == {p \in 1..Len(r) : r[p] = LB}
        rbs == {p \in 1..Len(r) : r[p] = RB}
    IN  IF lbs # {} /\ rbs # {} THEN SubSeq(r, Min(lbs), Max(rbs)) ELSE r

\* Lines 170-183: the text handed to json.loads.
ExtractJson(r) ==
    IF HasJsonFence(r)
    THEN LET m == SearchJsonFence(r) IN IF m.found THEN m.group ELSE r
    ELSE IF HasFence(r)
    THEN LET m == SearchFence(r) IN IF m.found THEN m.group ELSE r
    ELSE BracketSpan(r)

RECURSIVE DropWs(_)
DropWs(r) == IF r = <<>> THEN r
             ELSE IF r[1] = WS THEN DropWs(Tail(r))
             ELSE <<r[1]>> \o DropWs(Tail(r))

\* json.loads on tokens: one object, or an array of objects separated by
\* commas, blanks allowed between tokens.  [ok |-> FALSE] is JSONDecodeError.
\* (An array holding anything but objects is reported as a decode error
\* here; in the code it decodes and then fails at item.get: the caller
\* handles both alike.)
JsonLoads(r) ==
    LET t == DropWs(r)
        n == Len(t)
    IN  IF n = 1 /\ t[1].k = "obj" THEN [ok |-> TRUE, kind |-> "dict", v |-> t[1].f]
        ELSE IF n >= 2 /\ t[1] = LB /\ t[n] = RB
        THEN LET inner == SubSeq(t, 2, n - 1)
                 m == Len(inner)
             IN  IF m = 0 THEN [ok |-> TRUE, kind |-> "list", v |-> <<>>]
                 ELSE IF /\ m % 2 = 1
                         /\ \A j \in 1..m : IF j % 2 = 1 THEN inner[j].k = "obj"
                                            ELSE inner[j] = COMMA
                 THEN [ok |-> TRUE, kind |-> "list",
                       v |-> [j \in 1..((m + 1) \div 2) |-> inner[2 * j - 1].f]]
                 ELSE [ok |-> FALSE]
        ELSE [ok |-> FALSE]

\* Lines 185-194: strict parse, then one repaired parse.
LoadWithRepair(text) ==
    LET first == JsonLoads(Strip(text))
    IN  IF first.ok THEN first
        ELSE LET s == Strip(text)
                 a == IF s # <<>> /\ s[1] = LB THEN s ELSE <<LB>> \o s
                 b == IF a[Len(a)] = RB THEN a ELSE a \o <<RB>>
             IN  JsonLoads(b)


EmptyMap == [x \in {} |-> Null]

\* Lines 204-207: int(item_id) when it converts, else the id as it is.
CoerceIdKeep(v) == v

CoerceId(v) ==
    IF v.k = "str"
    THEN LET c == IntOfStr(v.s) IN IF c.ok THEN Num(c.n) ELSE v
    ELSE v

\* Lines 199-208 for one array element: the (key, value) stored, if any.
ItemEntry(item) ==
    LET item_id == Or(Or(Get(item, "id"), Get(item, "ID")), Get(item, "Id"))
        vietnamese == Or(Or(Or(Get(item, "vietnamese"), Get(item, "Vietnamese")),
                            Get(item, "vi")), Get(item, "translation"))
    IN  IF item_id # Null /\ Truthy(vietnamese)
        THEN [store |-> TRUE, key |-> CoerceId(item_id), val |-> vietnamese]
        ELSE [store |-> FALSE]

\* Lines 196-210: the result dict, later elements overwriting earlier ones.
RECURSIVE BuildResult(_)
BuildResult(items) ==
    IF items = <<>> THEN EmptyMap
    ELSE LET before == BuildResult(SubSeq(items, 1, Len(items) - 1))
             e == ItemEntry(items[Len(items)])
         IN  IF e.store THEN (e.key :> e.val) @@ before ELSE before

\* parse_translation_response: [ok |-> TRUE, map] or the exception raised.
parse_translation_response(response) ==
    LET j == LoadWithRepair(ExtractJson(response))
    IN  IF ~j.ok THEN [ok |-> FALSE, err |-> "JSONDecodeError"]
        ELSE IF j.kind = "dict"
        THEN IF DOMAIN j.v = {} THEN [ok |-> TRUE, map |-> EmptyMap]
             ELSE [ok |-> FALSE, err |-> "AttributeError"]   \* str has no .get
        ELSE [ok |-> TRUE, map |-> BuildResult(j.v)]

\* ------------------------------------------------------------------------
\* translate_segments
\* ------------------------------------------------------------------------

\* Lines 70-71, 78-79, 83-84, 90-91: the idempotent fallback.
FallbackSegAlways(seg) == [seg EXCEPT !.vietnamese = seg.text]

FallbackSeg(seg) ==
    IF ~Truthy(seg.vietnamese) THEN [seg EXCEPT !.vietnamese = seg.text] ELSE seg

\* Lines 62-71: reconcile one segment against the result dict.
ReconcileSegNoFallback(seg, translations) ==
    IF Num(seg.id) \in DOMAIN translations
    THEN [seg EXCEPT !.vietnamese = translations[Num(seg.id)]]
    ELSE seg

ReconcileSegOverwrite(seg, translations) ==
    IF Num(seg.id) \in DOMAIN translations
    THEN [seg EXCEPT !.vietnamese = translations[Num(seg.id)]]
    ELSE IF Str(ToStr(seg.id)) \in DOMAIN translations
    THEN [seg EXCEPT !.vietnamese = translations[Str(ToStr(seg.id))]]
    ELSE [seg EXCEPT !.vietnamese = seg.text]

ReconcileSeg(seg, translations) ==
    IF Num(seg.id) \in DOMAIN translations
    THEN [seg EXCEPT !.vietnamese = translations[Num(seg.id)]]
    ELSE IF Str(ToStr(seg.id)) \in DOMAIN translations
    THEN [seg EXCEPT !.vietnamese = translations[Str(ToStr(seg.id))]]
    ELSE FallbackSeg(seg)

\* Lines 54-59, 73: what the parse result leads to.
PathOfParse(p) ==
    IF ~p.ok THEN [path |-> "parse_error"]
    ELSE IF DOMAIN p.map = {} THEN [path |-> "empty_map"]
    ELSE [path |-> "reconcile", map |-> p.map]

\* Lines 50-91: the path one batch takes for what call_openrouter did.
\*   reply.kind = "raise": call_openrouter raised (not a RequestException)
\*   reply.kind = "none" : it returned None (RequestException) 
\*   reply.kind = "text" : it returned the message content
BatchPath(reply) ==
    IF reply.kind = "raise" THEN [path |-> "batch_error"]
    ELSE IF reply.kind = "none" \/ reply.body = <<>> THEN [path |-> "no_reply"]
    ELSE PathOfParse(parse_translation_response(reply.body))

\* Lines 61-71 or one of the fallback loops, over the batch.
ApplyPath(batch, h) ==
    IF h.path = "reconcile"
    THEN [j \in 1..Len(batch) |-> ReconcileSeg(batch[j], h.map)]
    ELSE [j \in 1..Len(batch) |-> FallbackSeg(batch[j])]


\* Lines 39-40, 86-91: a batch's failure is handled inside the loop body, so
\* the loop goes on to the next batch whatever path the batch took.
AfterBatchAbort(h, nextStart, n) ==
    IF h.path = "batch_error" THEN "raised"
    ELSE IF nextStart >= n THEN "done" ELSE "loop"

AfterBatch(h, nextStart, n) == IF nextStart >= n THEN "done" ELSE "loop"

\* Line 33: "if not api_key"
CredentialMissingOnlyNone(key) == key = Null

CredentialMissing(key) == ~Truthy(key)

\* ------------------------------------------------------------------------
\* What the external service may send back
\* ------------------------------------------------------------------------
TextOf(n) == Str(<<"t", DigitChar[n + 1]>>)      \* source text of segment n
TrOf(n) == Str(<<"v", DigitChar[n + 1]>>)        \* a translation of segment n
AltTrOf(n) == Str(<<"w", DigitChar[n + 1]>>)     \* another translation of it

Item(idv, viv) == ("id" :> idv) @@ ("vietnamese" :> viv)

SeqsUpTo(S, n) == UNION {[1..m -> S] : m \in 0..n}

\* The array "[o1, o2, ...]" and its elements without the brackets.
RECURSIVE BodyToks(_)
BodyToks(items) ==
    IF items = <<>> THEN <<>>
    ELSE IF Len(items) = 1 THEN <<Obj(items[1])>>
    ELSE <<Obj(items[1]), COMMA, WS>> \o BodyToks(Tail(items))

ArrayToks(items) == <<LB>> \o BodyToks(items) \o <<RB>>

Shapes == {"verbatim", "fenced_json", "fenced", "prose", "fenced_prose",
           "fenced_tag", "unclosed_fence", "bracket_prose", "no_brackets",
           "missing_close", "missing_open", "lone_object", "blank", "garbage"}

\* The reply text of each shape around the array of items.
Render(shape, items) ==
    LET A == ArrayToks(items)
    IN  CASE shape = "verbatim" -> A
          [] shape = "fenced_json" -> <<FENCE, TAGJSON, WS>> \o A \o <<WS, FENCE>>
          [] shape = "fenced" -> <<FENCE, WS>> \o A \o <<WS, FENCE>>
          [] shape = "prose" -> <<PROSE, WS>> \o A \o <<WS, PROSE>>
          [] shape = "fenced_prose" ->
                <<PROSE, WS, FENCE, TAGJSON, WS>> \o A \o <<WS, FENCE, WS, PROSE>>
          [] shape = "fenced_tag" -> <<FENCE, TAGOTHER, WS>> \o A \o <<WS, FENCE>>
          [] shape = "unclosed_fence" -> <<FENCE, TAGJSON, WS>> \o A
          [] shape = "bracket_prose" -> <<PROSE, LB, PROSE, RB, WS>> \o A
          [] shape = "no_brackets" -> BodyToks(items)
          [] shape = "missing_close" -> <<LB>> \o BodyToks(items)
          [] shape = "missing_open" -> BodyToks(items) \o <<RB>>
          [] shape = "lone_object" ->
                IF items = <<>> THEN <<>> ELSE <<Obj(items[1])>>
          [] shape = "blank" -> <<WS>>
          [] shape = "garbage" -> <<PROSE, WS, PROSE>>

\* The objects of the replies to translate_segments: a translation for a
\* segment id or for an id past the collection, one with the id as a
\* string, one with an empty translation, a second translation of segment
\* 1, one under other key names.
TranslateObjects ==
    {Item(Num(n), TrOf(n)) : n \in 1..(MaxSegs + 1)}
    \cup {Item(Str(ToStr(1)), TrOf(1)), Item(Num(1), Str(<<>>)),
          Item(Num(1), AltTrOf(1)),
          ("ID" :> Num(2)) @@ ("translation" :> TrOf(2))}

\* Lines 137-151, call_openrouter: the message content, None on a
\* RequestException (transport error, timeout, HTTP error status), or
\* another exception (an envelope without choices) passed on to the caller.
Replies ==
    {[kind |-> "text", shape |-> s, body |-> Render(s, a)] :
        s \in Shapes, a \in SeqsUpTo(TranslateObjects, MaxItems)}
    \cup {[kind |-> "none", shape |-> s, body |-> <<>>] :
             s \in {"transport_error", "timeout"}}
    \cup {[kind |-> "raise", shape |-> "bad_envelope", body |-> <<>>]}

\* Each reply with the path translate_segments takes on it.
ServiceOutcomes ==
    {[shape |-> r.shape,
      failed |-> (r.kind # "text" \/ r.body = <<>>),
      h |-> BatchPath(r)] : r \in Replies}

\* ------------------------------------------------------------------------
\* Idle values of each stage's variables
\* ------------------------------------------------------------------------
NoLast == [shape |-> "-", path |-> "-"]

TranslateIdle ==
    /\ segments = <<>> /\ api_key = Null /\ batch_size = 0 /\ pc = "off"
    /\ bstart = 0 /\ calls = 0 /\ entry = <<>> /\ allFailed = FALSE
    /\ fallbacks = 0 /\ last = NoLast

ParseIdle ==
    /\ pResponse = <<>> /\ pBatch = <<>> /\ pBatchIn = <<>> /\ pResult = Null
    /\ pPc = "off"

MergeIdle ==
    /\ mSegs = <<>> /\ mRaw = <<>> /\ mIn = <<>> /\ mMin = 0 /\ mPc = "off"
    /\ mNext = 0 /\ mCur = 0 /\ mMerged = <<>> /\ mPass = 0

NoTrack == [kind |-> "unread", len |-> 0, vol |-> 0]

AssembleIdle ==
    /\ aSegs = <<>> /\ aTotal = 0 /\ aDubVol = 0 /\ aOrig = NoTrack
    /\ aPc = "off" /\ aCanvas = <<>> /\ aOut = <<>>

ExportIdle ==
    /\ ePc = "off" /\ eBurn = FALSE /\ eFiles = {} /\ eDubbed = "None"
    /\ eSrt = "None" /\ eSuccess = FALSE /\ eFailed = "none" /\ eResult = "none"

translateVars == <<segments, api_key, batch_size, pc, bstart, calls, entry,
                   allFailed, fallbacks, last>>
parseVars == <<pResponse, pBatch, pBatchIn, pResult, pPc>>
mergeVars == <<mSegs, mRaw, mIn, mMin, mPc, mNext, mCur, mMerged, mPass>>
assembleVars == <<aSegs, aTotal, aDubVol, aOrig, aPc, aCanvas, aOut>>
exportVars == <<ePc, eBurn, eFiles, eDubbed, eSrt, eSuccess, eFailed, eResult>>
vars == <<translateVars, parseVars, mergeVars, assembleVars, exportVars>>

\* ------------------------------------------------------------------------
\* translate_segments as a state machine
\* ------------------------------------------------------------------------

\* A collection as transcribe_audio hands it over (lines 76-91 of
\* transcriber.py): ids 1..n, text stripped (possibly empty), vietnamese "".
Collections ==
    UNION {{[j \in 1..n |-> [id |-> j,
                             text |-> IF e[j] THEN Str(<<>>) ELSE TextOf(j),
                             vietnamese |-> Str(<<>>)]] :
               e \in [1..n -> BOOLEAN]} : n \in 0..MaxSegs}

ApiKeys == {Null, Str(<<>>), Str(<<"k">>)}


TranslateStart ==
    /\ segments \in Collections
    /\ api_key = Null /\ batch_size = 0 /\ pc = "idle"
    /\ bstart = 0 /\ calls = 0 /\ entry = segments /\ allFailed = FALSE
    /\ fallbacks = 0 /\ last = NoLast

\* translate_segments(segments, key, bs) is called: lines 33-37.  A call
\* made after an earlier one has returned or raised is a retry on the same
\* collection.
Call(key, bs) ==
    /\ pc \in {"idle", "done", "raised"}
    /\ api_key' = key
    /\ batch_size' = bs
    /\ entry' = segments
    /\ calls' = 0
    /\ allFailed' = TRUE
    /\ fallbacks' = 0
    /\ bstart' = 0
    /\ last' = NoLast
    /\ pc' = IF CredentialMissing(key) THEN "raised"
             ELSE IF Len(segments) = 0 THEN "done" ELSE "loop"
    /\ UNCHANGED <<segments, parseVars, mergeVars, assembleVars, exportVars>>

\* One pass of the loop at line 39 over the batch at offset bstart.
ProcessBatch ==
    /\ pc = "loop"
    /\ \E o \in ServiceOutcomes :
          LET lo == bstart + 1
              hi == IF bstart + batch_size <= Len(segments)
                    THEN bstart + batch_size ELSE Len(segments)
              nb == ApplyPath(SubSeq(segments, lo, hi), o.h)
          IN  /\ segments' = [j \in 1..Len(segments) |->
                                 IF lo <= j /\ j <= hi THEN nb[j - lo + 1]
                                 ELSE segments[j]]
              /\ calls' = calls + 1
              /\ allFailed' = (allFailed /\ o.failed)
              /\ fallbacks' = IF o.h.path = "reconcile" THEN fallbacks
                              ELSE fallbacks + 1
              /\ last' = [shape |-> o.shape, path |-> o.h.path]
              /\ bstart' = bstart + batch_size
              /\ pc' = AfterBatch(o.h, bstart + batch_size, Len(segments))
    /\ UNCHANGED <<api_key, batch_size, entry, parseVars, mergeVars, assembleVars, exportVars>>

TranslateNext ==
    \/ \E key \in ApiKeys, bs \in 1..MaxBatchSize : Call(key, bs)
    \/ ProcessBatch

TranslateInit ==
    TranslateStart /\ ParseIdle /\ MergeIdle /\ AssembleIdle /\ ExportIdle

SpecTranslate == TranslateInit /\ [][TranslateNext]_vars


\* ------------------------------------------------------------------------
\* parse_translation_response and the reconciliation of one batch, on one
\* reply
\* ------------------------------------------------------------------------

\* The objects of the replies: for each segment id a translation under the
\* numeric id and another under the id's string form; ids that are strings
\* int() does not convert or converts after dropping blanks; an id of 0; an
\* object under other key names.
ParseObjects ==
    {Item(Num(n), TrOf(n)) : n \in 1..MaxSegs}
    \cup {Item(Str(ToStr(n)), AltTrOf(n)) : n \in 1..MaxSegs}
    \cup {Item(Str(<<"x">>), TrOf(1)),
          Item(Str(<<" ", "1">>), TrOf(1)),
          Item(Num(0), TrOf(1)),
          ("ID" :> Str(ToStr(1))) @@ ("translation" :> TrOf(1))}

\* Reply texts parse_translation_response is called on (line 52: only a
\* non-empty reply reaches it).
ParseReplyTexts ==
    {Render(sh, a) : sh \in Shapes, a \in SeqsUpTo(ParseObjects, MaxItems)}
       \ {<<>>}

\* Batches: contiguous runs of a collection, untranslated or holding
\* translations of an earlier call.
ParseBatches ==
    {[j \in 1..(hi - lo + 1) |->
         [id |-> lo + j - 1, text |-> TextOf(lo + j - 1),
          vietnamese |-> IF old THEN TrOf(lo + j - 1) ELSE Str(<<>>)]] :
       lo \in 1..MaxSegs, hi \in 1..MaxSegs, old \in BOOLEAN} \ {<<>>}

ParseStart ==
    /\ pResponse \in ParseReplyTexts
    /\ pBatch \in ParseBatches
    /\ pBatchIn = pBatch
    /\ pResult = Null
    /\ pPc = "reply"

\* Line 55: translations = parse_translation_response(response)
ParseReply ==
    /\ pPc = "reply"
    /\ pResult' = parse_translation_response(pResponse)
    /\ pPc' = "parsed"
    /\ UNCHANGED <<pResponse, pBatch, pBatchIn, translateVars, mergeVars, assembleVars, exportVars>>

\* Lines 57-79: the reconciliation loop, or the fallback loop.
ReconcileReply ==
    /\ pPc = "parsed"
    /\ pBatch' = ApplyPath(pBatch, PathOfParse(pResult))
    /\ pPc' = "reconciled"
    /\ UNCHANGED <<pResponse, pBatchIn, pResult, translateVars, mergeVars, assembleVars, exportVars>>

ParseNext == ParseReply \/ ReconcileReply

ParseInit ==
    ParseStart /\ TranslateIdle /\ MergeIdle /\ AssembleIdle /\ ExportIdle

SpecParse == ParseInit /\ [][ParseNext]_vars

\* ------------------------------------------------------------------------
\* merge_short_segments.  Times are in half seconds: the 0.5 s gap test is
\* GapThreshold = 1, the default min_duration of 1.5 s is 3.
\* ------------------------------------------------------------------------
GapThreshold == 1
DefaultMinDuration == 3

WordList == <<"w1", "w2", "w3", "w4", "w5", "w6">>

\* The text of the k-th raw segment: one word, or two with a blank between.
RawText(k) == IF k % 2 = 0 THEN <<WordList[k], " ", "x">> ELSE <<WordList[k]>>

\* Raw segments as the recogniser yields them: non-decreasing by start,
\* start < end; consecutive ones may overlap or be nested.
RawSpans == {p \in (0..MaxTime) \X (0..MaxTime) : p[1] < p[2]}

NonDecreasing(t) == \A k \in 1..(Len(t) - 1) : t[k][1] <= t[k + 1][1]

RawSegs(t) ==
    [k \in 1..Len(t) |-> [start |-> t[k][1], end |-> t[k][2], text |-> RawText(k)]]

\* Lines 115-122: the merge test.
ShouldMergeNextDuration(current_seg, next_seg, min_duration) ==
    \/ next_seg.end - next_seg.start < min_duration
    \/ next_seg.start - current_seg.end < GapThreshold

ShouldMergeBoth(current_seg, next_seg, min_duration) ==
    /\ current_seg.end - current_seg.start < min_duration
    /\ next_seg.start - current_seg.end < GapThreshold

ShouldMergeDurationOnly(current_seg, next_seg, min_duration) ==
    current_seg.end - current_seg.start < min_duration

ShouldMerge(current_seg, next_seg, min_duration) ==
    LET duration == current_seg.end - current_seg.start
        gap == next_seg.start - current_seg.end
    IN  duration < min_duration \/ gap < GapThreshold

\* Lines 124-125: current_seg takes next_seg's end and text.
MergeInto(current_seg, next_seg) ==
    [current_seg EXCEPT !.end = next_seg.end,
                        !.text = @ \o <<" ">> \o next_seg.text]

\* Line 133: the last current_seg is appended.
AppendLastDropped(merged, cur) == merged

AppendLast(merged, cur) == Append(merged, cur)

\* The list merge_short_segments returns: the dicts merged refers to.
MergedList == [j \in 1..Len(mMerged) |-> mSegs[mMerged[j]]]

MergeStart ==
    /\ \E n \in 0..MaxRaw : \E t \in [1..n -> RawSpans] :
          NonDecreasing(t) /\ mRaw = RawSegs(t)
    /\ mSegs = mRaw
    /\ mIn = mRaw
    /\ mMin \in {DefaultMinDuration - 1, DefaultMinDuration}
    /\ mPc = "start"
    /\ mNext = 0 /\ mCur = 0 /\ mMerged = <<>> /\ mPass = 1

\* Lines 107-111
MergeBegin ==
    /\ mPc = "start"
    /\ mMerged' = <<>>
    /\ IF mSegs = <<>>
       THEN mPc' = "done" /\ UNCHANGED <<mCur, mNext>>
       ELSE mPc' = "loop" /\ mCur' = 1 /\ mNext' = 2
    /\ UNCHANGED <<mSegs, mRaw, mIn, mMin, mPass, translateVars, parseVars, assembleVars, exportVars>>

\* Lines 113-130: one pass of the loop, for next_seg = segments[mNext]
MergeStep ==
    /\ mPc = "loop"
    /\ mNext <= Len(mSegs)
    /\ IF ShouldMerge(mSegs[mCur], mSegs[mNext], mMin)
       THEN /\ mSegs' = [mSegs EXCEPT ![mCur] = MergeInto(mSegs[mCur], mSegs[mNext])]
            /\ UNCHANGED <<mMerged, mCur>>
       ELSE /\ mMerged' = Append(mMerged, mCur)
            /\ mCur' = mNext
            /\ UNCHANGED mSegs
    /\ mNext' = mNext + 1
    /\ UNCHANGED <<mRaw, mIn, mMin, mPc, mPass, translateVars, parseVars, assembleVars, exportVars>>

\* Lines 132-135
MergeFinish ==
    /\ mPc = "loop"
    /\ mNext > Len(mSegs)
    /\ mMerged' = AppendLast(mMerged, mCur)
    /\ mPc' = "done"
    /\ UNCHANGED <<mSegs, mRaw, mIn, mMin, mNext, mCur, mPass, translateVars, parseVars, assembleVars, exportVars>>

\* merge_short_segments is run again, on the list it returned.
MergeAgain ==
    /\ mPc = "done"
    /\ mPass = 1
    /\ mSegs' = MergedList
    /\ mIn' = MergedList
    /\ mPass' = 2
    /\ mPc' = "start"
    /\ mNext' = 0 /\ mCur' = 0 /\ mMerged' = <<>>
    /\ UNCHANGED <<mRaw, mMin, translateVars, parseVars, assembleVars, exportVars>>

MergeNext == MergeBegin \/ MergeStep \/ MergeFinish \/ MergeAgain

MergeInit ==
    MergeStart /\ TranslateIdle /\ ParseIdle /\ AssembleIdle /\ ExportIdle

SpecMerge == MergeInit /\ [][MergeNext]_vars

\* ------------------------------------------------------------------------
\* merger.py: create_dubbed_audio
\* ------------------------------------------------------------------------
\* Durations in seconds are floats; the model counts them in ticks of
\* 1/TicksPerMs of a millisecond, so that int(x * 1000) has something to drop.
TicksPerMs == 2

\* int(seconds * 1000)
ToMs(ticks) == ticks \div TicksPerMs

\* An audio segment is one set of sounding sources per millisecond; a source
\* is the segment the clip belongs to (0: the original track) and the gain
\* applied to it, in dB.
Silent(n) == [t \in 1..n |-> {}]

Sound(src, n) == [t \in 1..n |-> {[src |-> src, gain |-> 0]}]

\* audio + db, audio - db
ApplyGain(audio, db) ==
    [t \in 1..Len(audio) |-> {[s EXCEPT !.gain = @ + db] : s \in audio[t]}]

\* self.overlay(seg, position): seg is mixed into self from position on; the
\* result has the length of self, what runs past its end is dropped.
Overlay(self, seg, position) ==
    [t \in 1..Len(self) |->
        IF t > position /\ t <= position + Len(seg)
        THEN self[t] \cup seg[t - position]
        ELSE self[t]]

\* Line 50
OverlayClipOnto(combined, audio, start_ms) == Overlay(audio, combined, start_ms)

OverlayClip(combined, audio, start_ms) == Overlay(combined, audio, start_ms)

\* 20 * (dubbed_volume - 1) and 20 * (1 - original_volume), volumes in tenths
DubbedGain(dubbed_volume) == 2 * (dubbed_volume - 10)

OriginalCut(original_volume) == 2 * (10 - original_volume)

\* Lines 38-53: what one pass of the loop, for the k-th segment, makes of
\* combined.
ClipEffectDropsEarlier(combined, seg, k, dubbed_volume) ==
    IF seg.kind \in {"none", "missing"}
    THEN combined
    ELSE IF seg.kind \in {"unreadable", "unmixable"}
    THEN Silent(Len(combined))
    ELSE LET audio == Sound(k, seg.len)
             adjusted == IF dubbed_volume # 10
                         THEN ApplyGain(audio, DubbedGain(dubbed_volume))
                         ELSE audio
         IN  OverlayClip(combined, adjusted, ToMs(seg.start))

ClipEffect(combined, seg, k, dubbed_volume) ==
    IF seg.kind \in {"none", "missing"}
    THEN combined
    ELSE IF seg.kind = "unreadable"
    THEN combined
    ELSE LET audio == Sound(k, seg.len)
             start_ms == ToMs(seg.start)
             adjusted == IF dubbed_volume # 10
                         THEN ApplyGain(audio, DubbedGain(dubbed_volume))
                         ELSE audio
         IN  IF seg.kind = "unmixable"
             THEN combined
             ELSE OverlayClip(combined, adjusted, start_ms)

\* Lines 64-68
FitLength(original, n) ==
    IF Len(original) > n
    THEN SubSeq(original, 1, n)
    ELSE IF Len(original) < n
    THEN original \o Silent(n - Len(original))
    ELSE original

\* Lines 56-73
MixEffect(combined, orig) ==
    IF orig.kind \in {"none", "missing"} \/ ~(orig.vol > 0)
    THEN combined
    ELSE IF orig.kind = "unreadable"
    THEN combined
    ELSE LET original == ApplyGain(Sound(0, orig.len), 0 - OriginalCut(orig.vol))
         IN  Overlay(combined, FitLength(original, Len(combined)), 0)

RECURSIVE OverlayAll(_, _, _, _)
\* Lines 38-53, from the k-th segment on
OverlayAll(segs, k, combined, dubbed_volume) ==
    IF k > Len(segs)
    THEN combined
    ELSE OverlayAll(segs, k + 1, ClipEffect(combined, segs[k], k, dubbed_volume),
                    dubbed_volume)

\* Lines 34-73: the track create_dubbed_audio hands to export
DubbedTrack(segs, total_duration, orig, dubbed_volume) ==
    MixEffect(OverlayAll(segs, 1, Silent(ToMs(total_duration)), dubbed_volume), orig)

\* A segment's audio_path names no file ("none": absent or empty), a file
\* that does not exist ("missing"), a file that cannot be decoded
\* ("unreadable"), one whose overlay raises ("unmixable"), or a clip of len
\* milliseconds; start is in ticks.
NoClip(kind) == [kind |-> kind, start |-> 0, len |-> 0]

ClipAt(start, len) == [kind |-> "clip", start |-> start, len |-> len]

AssembleSegs ==
    {NoClip(k) : k \in {"none", "missing", "unreadable", "unmixable"}}
    \cup {ClipAt(s, l) : s \in {TicksPerMs * ms : ms \in 0..(MaxMs + 1)} \cup {1},
                         l \in {1, MaxMs + 1}}

TotalTicks == {0, TicksPerMs * MaxMs, TicksPerMs * MaxMs + 1}

DubVolumes == {10, 5}

OriginalTracks ==
    {[kind |-> k, len |-> 0, vol |-> 1] : k \in {"none", "missing", "unreadable"}}
    \cup {[kind |-> "track", len |-> l, vol |-> 1] : l \in 0..(MaxMs + 1)}
    \cup {[kind |-> "track", len |-> MaxMs, vol |-> 0]}

AssembleStart ==
    /\ aPc = "call"
    /\ aSegs = <<>> /\ aTotal = 0 /\ aDubVol = 0 /\ aOrig = NoTrack
    /\ aCanvas = <<>> /\ aOut = <<>>

\* Lines 34-35
Allocate ==
    /\ aPc = "call"
    /\ \E total_duration \in TotalTicks, dubbed_volume \in DubVolumes :
          /\ aTotal' = total_duration
          /\ aDubVol' = dubbed_volume
          /\ aCanvas' = Silent(ToMs(total_duration))
    /\ aPc' = "clips"
    /\ UNCHANGED <<aSegs, aOrig, aOut, translateVars, parseVars, mergeVars, exportVars>>

\* Lines 38-53: one pass of the loop
OverlaySegment ==
    /\ aPc = "clips"
    /\ Len(aSegs) < MaxClips
    /\ \E seg \in AssembleSegs :
          /\ aSegs' = Append(aSegs, seg)
          /\ aCanvas' = ClipEffect(aCanvas, seg, Len(aSegs) + 1, aDubVol)
    /\ UNCHANGED <<aTotal, aDubVol, aOrig, aPc, aOut, translateVars, parseVars, mergeVars, exportVars>>

\* Lines 56-73, once the loop is through the segments
MixOriginal ==
    /\ aPc = "clips"
    /\ \E orig \in OriginalTracks :
          /\ aOrig' = orig
          /\ aCanvas' = MixEffect(aCanvas, orig)
    /\ aPc' = "mixed"
    /\ UNCHANGED <<aSegs, aTotal, aDubVol, aOut, translateVars, parseVars, mergeVars, exportVars>>

\* Lines 76-79: export writes the track, or raises
ExportTrack ==
    /\ aPc = "mixed"
    /\ \E written \in BOOLEAN :
          IF written
          THEN aOut' = aCanvas /\ aPc' = "returned"
          ELSE aOut' = aOut /\ aPc' = "raised"
    /\ UNCHANGED <<aSegs, aTotal, aDubVol, aOrig, aCanvas, translateVars, parseVars, mergeVars, exportVars>>

AssembleNext == Allocate \/ OverlaySegment \/ MixOriginal \/ ExportTrack

AssembleInit ==
    AssembleStart /\ TranslateIdle /\ ParseIdle /\ MergeIdle /\ ExportIdle

SpecAssemble == AssembleInit /\ [][AssembleNext]_vars

\* ------------------------------------------------------------------------
\* merger.py: export_video
\* ------------------------------------------------------------------------
TempFiles == {"dubbed.mp3", "subs.srt"}

ExportSegLists ==
    SeqsUpTo({NoClip("none"), NoClip("unreadable"), ClipAt(0, 1)}, MaxClips)

ExportOriginals ==
    {[kind |-> "none", len |-> 0, vol |-> 1],
     [kind |-> "track", len |-> MaxMs + 1, vol |-> 1]}

\* A step that writes a file and raises may have created the file or not.
WriteOutcomes == {"ok", "error_no_file", "error_file_left"}

\* subprocess.run of ffmpeg: exit status 0, another exit status, the
\* 600 s timeout, or an exception (such as ffmpeg not being installed).
MuxOutcomes == {"ok", "nonzero", "timeout", "exception"}

\* Lines 135-191: merge_video_audio returns True for exit status 0 only
merge_video_audio(outcome) == outcome = "ok"

ExportStart ==
    /\ ePc = "probe"
    /\ eBurn \in BOOLEAN
    /\ aSegs \in ExportSegLists
    /\ aOrig \in ExportOriginals
    /\ aDubVol \in DubVolumes
    /\ aTotal = 0 /\ aPc = "off" /\ aCanvas = <<>> /\ aOut = <<>>
    /\ eFiles = {} /\ eDubbed = "None" /\ eSrt = "None"
    /\ eSuccess = FALSE /\ eFailed = "none" /\ eResult = "none"

\* Lines 226-228: the clip is opened for its duration, or VideoFileClip raises
ProbeVideo ==
    /\ ePc = "probe"
    /\ \E opened \in BOOLEAN, duration \in TotalTicks :
          IF opened
          THEN aTotal' = duration /\ ePc' = "dub" /\ eFailed' = eFailed
          ELSE aTotal' = aTotal /\ ePc' = "raised" /\ eFailed' = "VideoFileClip"
    /\ UNCHANGED <<aSegs, aDubVol, aOrig, aPc, aCanvas, aOut, eBurn, eFiles,
                   eDubbed, eSrt, eSuccess, eResult,
                   translateVars, parseVars, mergeVars>>

\* Lines 231-237: the call of create_dubbed_audio (lines 34-79)
CreateDubbedAudio ==
    /\ ePc = "dub"
    /\ \E outcome \in WriteOutcomes :
          /\ eFiles' = IF outcome = "error_no_file"
                       THEN eFiles ELSE eFiles \cup {"dubbed.mp3"}
          /\ IF outcome = "ok"
             THEN /\ aOut' = DubbedTrack(aSegs, aTotal, aOrig, aDubVol)
                  /\ eDubbed' = "dubbed.mp3"
                  /\ ePc' = "srt"
                  /\ eFailed' = eFailed
             ELSE /\ ePc' = "raised"
                  /\ eFailed' = "create_dubbed_audio"
                  /\ UNCHANGED <<aOut, eDubbed>>
    /\ UNCHANGED <<aSegs, aTotal, aDubVol, aOrig, aPc, aCanvas, eBurn, eSrt,
                   eSuccess, eResult, translateVars, parseVars, mergeVars>>

\* Lines 243-245: create_srt_file (lines 93-112) if burn_subtitles
CreateSrtFile ==
    /\ ePc = "srt"
    /\ IF eBurn
       THEN \E outcome \in WriteOutcomes :
               /\ eFiles' = IF outcome = "error_no_file"
                            THEN eFiles ELSE eFiles \cup {"subs.srt"}
               /\ IF outcome = "ok"
                  THEN eSrt' = "subs.srt" /\ ePc' = "mux" /\ eFailed' = eFailed
                  ELSE eSrt' = eSrt /\ ePc' = "raised"
                       /\ eFailed' = "create_srt_file"
       ELSE ePc' = "mux" /\ UNCHANGED <<eFiles, eSrt, eFailed>>
    /\ UNCHANGED <<assembleVars, eBurn, eDubbed, eSuccess, eResult,
                   translateVars, parseVars, mergeVars>>

\* Lines 251-257
MergeVideoAudio ==
    /\ ePc = "mux"
    /\ \E outcome \in MuxOutcomes :
          /\ eSuccess' = merge_video_audio(outcome)
          /\ eFailed' = IF outcome = "ok" THEN eFailed ELSE "merge_video_audio"
    /\ ePc' = "cleanup"
    /\ UNCHANGED <<assembleVars, eBurn, eFiles, eDubbed, eSrt, eResult,
                   translateVars, parseVars, mergeVars>>

\* Lines 260-264
CleanupAndReturn ==
    /\ ePc = "cleanup"
    /\ eFiles' = eFiles \ {eDubbed, eSrt}
    /\ eResult' = IF eSuccess THEN "True" ELSE "False"
    /\ ePc' = "returned"
    /\ UNCHANGED <<assembleVars, eBurn, eDubbed, eSrt, eSuccess, eFailed,
                   translateVars, parseVars, mergeVars>>

ExportNext ==
    \/ ProbeVideo
    \/ CreateDubbedAudio
    \/ CreateSrtFile
    \/ MergeVideoAudio
    \/ CleanupAndReturn

ExportInit ==
    ExportStart /\ TranslateIdle /\ ParseIdle /\ MergeIdle

SpecExport == ExportInit /\ [][ExportNext]_vars

\* ------------------------------------------------------------------------
\* Claims about translate_segments
\* ------------------------------------------------------------------------
SegIdx == 1..Len(segments)

\* C1 (translation completeness): with a non-empty credential the call
\* never raises, and once it has returned on a collection whose segments all
\* have non-empty text, every segment has a non-empty vietnamese, whatever
\* the service sent for each batch.
C1_TranslationComplete ==
    /\ (Truthy(api_key) => pc # "raised")
    /\ (pc = "done" /\ \A j \in SegIdx : Truthy(segments[j].text))
          => \A j \in SegIdx : Truthy(segments[j].vietnamese)

\* C1 witness: a call over two batches has returned; the last batch got a
\* fenced reply that was reconciled, one segment holds a translation and
\* another fell back to its text.
C1_Witness ==
    /\ pc = "done" /\ calls = 2 /\ Len(segments) = 2
    /\ last = [shape |-> "fenced_json", path |-> "reconcile"]
    /\ segments[1].vietnamese = TextOf(1)
    /\ segments[2].vietnamese = TrOf(2)

\* C2 as stated: when every call to the service failed, every returned
\* segment has vietnamese = text.
C2_FallbackAlwaysText ==
    (pc = "done" /\ allFailed)
        => \A j \in SegIdx : segments[j].vietnamese = segments[j].text

\* C2 amended: when every call to the service failed, a segment whose
\* vietnamese was empty when the call was made has vietnamese = text, and a
\* segment that already had a non-empty vietnamese keeps it.
C2_FallbackTextOrKept ==
    (pc = "done" /\ allFailed)
        => \A j \in SegIdx :
              segments[j].vietnamese =
                 IF Truthy(entry[j].vietnamese) THEN entry[j].vietnamese
                 ELSE segments[j].text

\* C2 witness: a call over two batches, each of which failed, has returned;
\* both segments were untranslated before and now hold their text.
C2_Witness ==
    /\ pc = "done" /\ allFailed /\ calls = 2 /\ Len(segments) = 2
    /\ last.shape = "timeout"
    /\ \A j \in SegIdx : /\ ~Truthy(entry[j].vietnamese)
                         /\ Truthy(segments[j].text)
                         /\ segments[j].vietnamese = segments[j].text

\* C3 (missing credential): a call with an empty or absent credential has
\* raised, with no call to the service made, no batch processed and the
\* collection as it was when the call was made.
C3_MissingCredentialRaisesFirst ==
    (pc # "idle" /\ ~Truthy(api_key))
        => /\ pc = "raised"
           /\ calls = 0
           /\ bstart = 0
           /\ segments = entry

\* C3 witness: a call with the empty string as credential has raised on a
\* collection of two segments.
C3_Witness ==
    /\ pc = "raised" /\ api_key = Str(<<>>) /\ Len(segments) = 2

\* C4 (batch failure isolation): whatever happened to the batches before,
\* the loop is at the next batch or has attempted them all (one service
\* call per batch, none skipped, never a raise), the segments of the batches
\* still to come are as they were when the call was made, and what a
\* processed segment holds is its entry value, its text by fallback, or a
\* value of its own batch's reply.
C4_BatchIsolation ==
    /\ (Truthy(api_key) => pc # "raised")
    /\ pc \in {"loop", "done"} =>
          /\ bstart = calls * batch_size
          /\ (pc = "loop") = (bstart < Len(segments))
          /\ \A j \in SegIdx :
                IF j > bstart THEN segments[j] = entry[j]
                ELSE \/ segments[j] = FallbackSeg(entry[j])
                     \/ /\ segments[j].vietnamese \in
                              {TrOf(segments[j].id), AltTrOf(segments[j].id)}
                        /\ segments[j].id = entry[j].id
                        /\ segments[j].text = entry[j].text

\* C4 witness: of two batches the first ended on a fallback path (the call
\* raised) and the second was still reconciled against its reply.
C4_Witness ==
    /\ pc = "done" /\ calls = 2 /\ fallbacks = 1 /\ Len(segments) = 2
    /\ last.path = "reconcile"
    /\ segments[1].vietnamese = TextOf(1)
    /\ segments[2].vietnamese = TrOf(2)


\* ------------------------------------------------------------------------
\* Claims about parse_translation_response
\* ------------------------------------------------------------------------
IdKeys == {"id", "ID", "Id"}

\* The string form of the id of a segment of the batch.
IsStringIdOf(v, batch) ==
    v.k = "str" /\ \E j \in 1..Len(batch) : v.s = ToStr(batch[j].id)

\* The otherwise identical reply that carries each such id as a number.
NumericIds(r, batch) ==
    [p \in 1..Len(r) |->
        IF r[p].k = "obj"
        THEN Obj([key \in DOMAIN r[p].f |->
                    IF key \in IdKeys /\ IsStringIdOf(r[p].f[key], batch)
                    THEN Num(DigitsVal(r[p].f[key].s))
                    ELSE r[p].f[key]])
        ELSE r[p]]

\* C5 (id-matching robustness): the batch reconciled against a reply that
\* carries segment ids in string form is the batch reconciled against the
\* otherwise identical reply carrying them as numbers.
C5_StringIdsReconcileAlike ==
    pPc = "reconciled" =>
        pBatch = ApplyPath(pBatchIn,
                    PathOfParse(parse_translation_response(
                                    NumericIds(pResponse, pBatchIn))))

\* C5 witness: a reply holding a segment's id in string form was
\* reconciled and that segment took the reply's translation.
C5_Witness ==
    /\ pPc = "reconciled"
    /\ NumericIds(pResponse, pBatchIn) # pResponse
    /\ \E j \in 1..Len(pBatch), p \in 1..Len(pResponse) :
          /\ pResponse[p].k = "obj"
          /\ Get(pResponse[p].f, "id") = Str(ToStr(pBatch[j].id))
          /\ pBatch[j].vietnamese = Get(pResponse[p].f, "vietnamese")
          /\ pBatchIn[j].vietnamese # pBatch[j].vietnamese


\* ------------------------------------------------------------------------
\* Claims about merge_short_segments
\* ------------------------------------------------------------------------
RECURSIVE JoinTexts(_)
JoinTexts(segs) ==
    IF segs = <<>> THEN <<>>
    ELSE IF Len(segs) = 1 THEN segs[1].text
    ELSE segs[1].text \o <<" ">> \o JoinTexts(Tail(segs))

Duration(seg) == seg.end - seg.start

\* C6 (merge idempotence): the pass over the output of the first pass
\* returns a list with the same number of segments and the same start, end
\* and text for each.
C6_MergeIdempotent ==
    (mPc = "done" /\ mPass = 2) => MergedList = mIn

\* C6 witness: the first pass merged raw segments, left at least two
\* segments of which the last is shorter than min_duration, and the second
\* pass has finished.
C6_Witness ==
    /\ mPc = "done" /\ mPass = 2
    /\ Len(MergedList) >= 2
    /\ Len(mRaw) > Len(MergedList)
    /\ Duration(MergedList[Len(MergedList)]) < mMin

\* C7 (total text preservation): the texts of the returned segments, read
\* in order, are the texts of the segments passed in, in input order, each
\* once: joined by single blanks the two are equal (a merge puts exactly one
\* blank between the texts it joins).
C7_TextPreserved ==
    mPc = "done" => JoinTexts(MergedList) = JoinTexts(mIn)

\* C7 witness: three raw segments came out as two, the first holding the
\* first two texts.
C7_Witness ==
    /\ mPc = "done" /\ mPass = 1
    /\ Len(mIn) = 3 /\ Len(MergedList) = 2
    /\ MergedList[1].text = mIn[1].text \o <<" ">> \o mIn[2].text

\* C8 as stated: no returned segment is shorter than min_duration and no
\* two consecutive ones are closer than the gap threshold.
C8_DubbingSafe ==
    mPc = "done" =>
        /\ \A j \in 1..Len(MergedList) : Duration(MergedList[j]) >= mMin
        /\ \A j \in 1..(Len(MergedList) - 1) :
              MergedList[j + 1].start - MergedList[j].end >= GapThreshold

\* C8 amended: no returned segment other than the last is shorter than
\* min_duration, and no two consecutive ones are closer than the gap
\* threshold.
C8_DubbingSafeButLast ==
    mPc = "done" =>
        /\ \A j \in 1..(Len(MergedList) - 1) : Duration(MergedList[j]) >= mMin
        /\ \A j \in 1..(Len(MergedList) - 1) :
              MergedList[j + 1].start - MergedList[j].end >= GapThreshold

\* C8 witness: two segments were returned from three, the last of them
\* shorter than min_duration.
C8_Witness ==
    /\ mPc = "done" /\ mPass = 1
    /\ Len(mIn) = 3 /\ Len(MergedList) = 2
    /\ Duration(MergedList[1]) >= mMin
    /\ Duration(MergedList[2]) < mMin

\* ------------------------------------------------------------------------
\* Claims about create_dubbed_audio and export_video
\* ------------------------------------------------------------------------
\* C9 (timeline duration): the canvas is allocated int(total_duration * 1000)
\* ms long and keeps that length through every clip overlay, wherever the
\* clip starts and however long it is, and through the mix of the original
\* track; the exported track has the length of the canvas.
C9_TimelineDuration ==
    /\ aPc \in {"clips", "mixed", "returned", "raised"} =>
           Len(aCanvas) = aTotal \div TicksPerMs
    /\ aPc = "returned" => Len(aOut) = aTotal \div TicksPerMs

\* A track was exported from a non-empty canvas onto which one clip running
\* past the end and one starting beyond the end were overlaid, and into which
\* an original track longer than the canvas was mixed.
C9_Witness ==
    /\ aPc = "returned"
    /\ aTotal \div TicksPerMs > 0
    /\ \E k \in 1..Len(aSegs) :
          /\ aSegs[k].kind = "clip"
          /\ aSegs[k].start \div TicksPerMs < Len(aCanvas)
          /\ aSegs[k].start \div TicksPerMs + aSegs[k].len > Len(aCanvas)
    /\ \E k \in 1..Len(aSegs) :
          /\ aSegs[k].kind = "clip"
          /\ aSegs[k].start \div TicksPerMs > Len(aCanvas)
    /\ aOrig.kind = "track" /\ aOrig.vol > 0 /\ aOrig.len > Len(aCanvas)
    /\ \E t \in 1..Len(aOut) : Cardinality(aOut[t]) = 2

\* C10 (export failure reporting and cleanup): whichever step of
\* export_video fails, the call does not raise but returns False, and
\* whenever it has returned neither temporary file exists any more.
C10_FailureReportedAndCleaned ==
    /\ ePc # "raised"
    /\ (ePc = "returned" /\ eFailed # "none") => eResult = "False"
    /\ ePc = "returned" => eFiles \cap TempFiles = {}

\* ------------------------------------------------------------------------
\* Further claims about translate_segments and parse_translation_response
\* ------------------------------------------------------------------------
\* The segments of the batch the loop has just been through.
InLastBatch(j) == last.path # "-" /\ bstart - batch_size < j /\ j <= bstart

\* C11 (idempotent fallback): after a batch that took a fallback path
\* (parse failure, empty result map, empty reply, batch-level exception)
\* each of its segments holds the vietnamese it had when the call was made
\* if that was non-empty, and its text otherwise; and on no path, the one
\* for an id missing from the result map included, is a segment's text
\* written over a non-empty vietnamese.
C11_IdempotentFallback ==
    /\ \A j \in SegIdx :
          (InLastBatch(j) /\ last.path # "reconcile") =>
              segments[j].vietnamese =
                 IF Truthy(entry[j].vietnamese) THEN entry[j].vietnamese
                 ELSE segments[j].text
    /\ \A j \in SegIdx :
          (Truthy(entry[j].vietnamese) /\ entry[j].vietnamese # segments[j].text)
              => segments[j].vietnamese # segments[j].text

\* C11 witness: a retry over a collection translated by an earlier call has
\* returned; its last batch got a reply that failed to parse, and the
\* segment of that batch still holds the earlier translation.
C11_Witness ==
    /\ pc = "done" /\ calls = 2 /\ Len(segments) = 2
    /\ last.path = "parse_error"
    /\ InLastBatch(2)
    /\ entry[2].vietnamese = TrOf(2)
    /\ segments[2].vietnamese = TrOf(2)
    /\ segments[2].text = TextOf(2)

\* The interior of the first complete fenced block of r, its language tag
\* and the blanks at both ends left out.
FencedInterior(r) ==
    LET starts == {p \in 1..Len(r) :
                      /\ r[p] = FENCE
                      /\ \E q \in (p + 1)..Len(r) : r[q] = FENCE}
    IN  IF starts = {} THEN [found |-> FALSE]
        ELSE LET p == Min(starts)
                 q == Min({q \in (p + 1)..Len(r) : r[q] = FENCE})
                 inner == SubSeq(r, p + 1, q - 1)
                 body == IF inner # <<>> /\ inner[1] \in {TAGJSON, TAGOTHER}
                         THEN Tail(inner) ELSE inner
             IN  [found |-> TRUE, group |-> Strip(body)]

\* What parse_translation_response makes of decoded JSON (lines 196-210).
ResultOfLoad(j) ==
    IF ~j.ok THEN [ok |-> FALSE, err |-> "JSONDecodeError"]
    ELSE IF j.kind = "dict"
    THEN IF DOMAIN j.v = {} THEN [ok |-> TRUE, map |-> EmptyMap]
         ELSE [ok |-> FALSE, err |-> "AttributeError"]
    ELSE [ok |-> TRUE, map |-> BuildResult(j.v)]

\* The replies that hold one array verbatim, inside a fenced block with or
\* without a language tag, or between prose.
HoldsArray(r, a) ==
    \E sh \in {"verbatim", "fenced_json", "fenced", "fenced_tag", "prose",
                "fenced_prose"} : r = Render(sh, a)

\* C12 (response extraction order): the text parsed is the interior of the
\* complete fenced block if the reply has one, with or without a language
\* tag, and in every other case the span from the first opening to the last
\* closing bracket; it is parsed strictly, then once more after the repair,
\* and a second failure is an error.  So a reply holding one array
\* verbatim, in a fenced block or between prose yields the map of that array.
C12_ExtractionOrder ==
    pPc # "reply" =>
        LET m == FencedInterior(pResponse)
            chosen == IF m.found THEN m.group ELSE BracketSpan(pResponse)
        IN  /\ pResult = ResultOfLoad(LoadWithRepair(chosen))
            /\ \A a \in SeqsUpTo(ParseObjects, MaxItems) :
                  HoldsArray(pResponse, a) =>
                      pResult = [ok |-> TRUE, map |-> BuildResult(a)]

\* ------------------------------------------------------------------------
\* Further claims about merge_short_segments
\* ------------------------------------------------------------------------
\* C13 (merged ordering and non-overlap): for raw segments non-decreasing by
\* start with start < end each, overlapping and nested ones included, the
\* returned segments are non-decreasing by start, each has start < end, and
\* each ends no later than the next one starts.
C13_OrderedNoOverlap ==
    mPc = "done" =>
        /\ \A j \in 1..(Len(MergedList) - 1) :
              MergedList[j].start <= MergedList[j + 1].start
        /\ \A j \in 1..Len(MergedList) : MergedList[j].start < MergedList[j].end
        /\ \A j \in 1..(Len(MergedList) - 1) :
              MergedList[j].end <= MergedList[j + 1].start

\* C13 witness: three raw segments, the second nested in the first, came
\* out as two segments.
C13_Witness ==
    /\ mPc = "done" /\ mPass = 1
    /\ Len(mIn) = 3 /\ Len(MergedList) = 2
    /\ mIn[2].start < mIn[1].end /\ mIn[2].end < mIn[1].end
    /\ MergedList[1].end = mIn[2].end

\* ------------------------------------------------------------------------
\* Further claims about create_dubbed_audio
\* ------------------------------------------------------------------------
\* The clips that sound at millisecond t of the canvas if every segment read
\* so far that has a loadable clip was overlaid at its own start offset.
ClipsSoundingAt(t) ==
    {[src |-> k, gain |-> 2 * (aDubVol - 10)] :
        k \in {i \in 1..Len(aSegs) :
                  /\ aSegs[i].kind = "clip"
                  /\ aSegs[i].start \div TicksPerMs < t
                  /\ t <= aSegs[i].start \div TicksPerMs + aSegs[i].len}}

\* C14 (per-clip failure isolation): a segment without an audio_path, with
\* one that names no existing file, or with a clip that fails to load or to
\* overlay adds nothing to the canvas and does not end the loop: what the
\* canvas holds of the clips is every loadable clip at its own offset; the
\* function goes on to the mix of the original track and to the export, so
\* it raises only from the export.
C14_ClipFailureIsolated ==
    /\ aPc \in {"clips", "mixed", "returned", "raised"} =>
           \A t \in 1..Len(aCanvas) :
              {s \in aCanvas[t] : s.src # 0} = ClipsSoundingAt(t)
    /\ aPc = "raised" => aOrig # NoTrack
    /\ aPc = "returned" => aOut = aCanvas

\* C14 witness: the track was exported after a loop over a loadable clip
\* inside the canvas and then a segment whose clip failed to overlay; the
\* first clip sounds in the track.
C14_Witness ==
    /\ aPc = "returned" /\ Len(aSegs) = 2
    /\ aSegs[1].kind = "clip"
    /\ aSegs[2].kind \in {"unreadable", "unmixable"}
    /\ \E t \in 1..Len(aOut) : \E s \in aOut[t] : s.src = 1

====
